---- MODULE Spec2Model ----
(***************************************************************************)
(* Model of src/app.py: the Flask chat endpoint POST /api/chat, with its   *)
(* two helpers build_system_preamble and build_prompt.                     *)
(*                                                                         *)
(* Python strings are TLA+ strings (TLC evaluates Len, Head, Tail, SubSeq  *)
(* and \o on them).  A JSON/Python scalar is a record [t, s]: t is its     *)
(* type tag ("absent" for a missing key, "null" for None, "str", "num")    *)
(* and s its text (the decimal form for a number).  Characters outside     *)
(* ASCII are written as their JSON escape, as jsonify puts them on the     *)
(* wire.                                                                   *)
(***************************************************************************)
EXTENDS Integers, Sequences, FiniteSets, TLC

(***************************************************************************)
(* Python str methods                                                      *)
(***************************************************************************)
Whitespace == {" ", "\t", "\n", "\r"}

LowerAlpha == "abcdefghijklmnopqrstuvwxyz"

UpperAlpha == "ABCDEFGHIJKLMNOPQRSTUVWXYZ"

CharAt(s, i) == SubSeq(s, i, i)

\* the position of character c in alphabet al, 0 when it is not in it
AlphaIndex(al, c) ==
    IF \E i \in 1..Len(al) : CharAt(al, i) = c
    THEN CHOOSE i \in 1..Len(al) : CharAt(al, i) = c
    ELSE 0

UpperCh(c) ==
    IF AlphaIndex(LowerAlpha, c) = 0 THEN c
    ELSE CharAt(UpperAlpha, AlphaIndex(LowerAlpha, c))

LowerCh(c) ==
    IF AlphaIndex(UpperAlpha, c) = 0 THEN c
    ELSE CharAt(LowerAlpha, AlphaIndex(UpperAlpha, c))

RECURSIVE lower(_)
\* str.lower()
lower(s) == IF s = "" THEN "" ELSE LowerCh(Head(s)) \o lower(Tail(s))

\* a variant of str.capitalize() that leaves the tail of the string alone
capitalizeKeepTail(s) == IF s = "" THEN "" ELSE UpperCh(Head(s)) \o Tail(s)

\* str.capitalize(): first character upper case, all the others lower case
capitalize(s) == IF s = "" THEN "" ELSE UpperCh(Head(s)) \o lower(Tail(s))

RECURSIVE lstrip(_)
lstrip(s) ==
    IF s = "" THEN ""
    ELSE IF Head(s) \in Whitespace THEN lstrip(Tail(s)) ELSE s

RECURSIVE rstrip(_)
rstrip(s) ==
    IF s = "" THEN ""
    ELSE IF CharAt(s, Len(s)) \in Whitespace
         THEN rstrip(SubSeq(s, 1, Len(s) - 1))
         ELSE s

\* a variant of str.strip() that only strips the left end
stripLeftOnly(s) == lstrip(s)

\* a variant of str.strip() that strips nothing
stripNothing(s) == s

\* str.strip()
strip(s) == rstrip(lstrip(s))

RECURSIVE join(_, _)
\* sep.join(lines)
join(sep, lines) ==
    IF lines = <<>> THEN ""
    ELSE IF Len(lines) = 1 THEN lines[1]
    ELSE lines[1] \o sep \o join(sep, Tail(lines))

(***************************************************************************)
(* Python / JSON values                                                    *)
(***************************************************************************)
Absent == [t |-> "absent", s |-> ""]

Null == [t |-> "null", s |-> ""]

Str(x) == [t |-> "str", s |-> x]

Num(x) == [t |-> "num", s |-> x]

\* dict.get(key, default) on the value v stored under the key, which has
\* the type tag "absent" when the dict has no such key
Get(v, default) == IF v.t = "absent" THEN default ELSE v

\* str(v), what an f-string renders
PyStr(v) == IF v.t = "null" THEN "None" ELSE v.s

\* bool(v)
Truthy(v) ==
    CASE v.t = "str" -> v.s # ""
      [] v.t = "num" -> v.s # "0"
      [] OTHER -> FALSE

\* x if x >= y else y
Max(x, y) == IF x >= y THEN x ELSE y

Min(x, y) == IF x <= y THEN x ELSE y

\* seq[start:] for a negative or non-negative start
SliceFrom(seq, start) ==
    LET n == Len(seq)
        from0 == IF start < 0 THEN Max(n + start, 0) ELSE Min(start, n)
    IN  SubSeq(seq, from0 + 1, n)

\* seq[:stop] for a non-negative stop
SliceTo(seq, stop) == SubSeq(seq, 1, Min(stop, Len(seq)))

(***************************************************************************)
(* build_system_preamble                                                   *)
(***************************************************************************)
ProfileKeys ==
    <<"age", "gender", "height", "weight", "goal", "diet", "activity", "allergies">>

\* a key the formatter does not read
OtherKey == "other"

AllKeys == {ProfileKeys[i] : i \in 1..Len(ProfileKeys)} \cup {OtherKey}

\* the profile value {}: a dict with no key
EmptyDict == [t |-> "obj", s |-> "", f |-> [k \in AllKeys |-> Absent]]

\* profile values that are not dicts
NonDict(v) == [t |-> v.t, s |-> v.s, f |-> [k \in AllKeys |-> Absent]]

\* bool(profile)
ProfileTruthy(profile) ==
    IF profile.t = "obj" THEN \E k \in AllKeys : profile.f[k] # Absent
    ELSE Truthy(profile)

GenericPreamble ==
    "You are a friendly, factual fitness & diet assistant. "
    \o "Answer clearly and helpfully for general questions."

Returned(v) == [raised |-> FALSE, val |-> v]

Raised(e) == [raised |-> TRUE, val |-> e]

\* the f-string of lines 49-61 with 'none' also substituted for a blank Goal
ProfileBlockNoneGoal(age, gender, height, weight, goal, diet, activity, allergies) ==
    "You are a friendly, factual fitness & diet assistant. "
    \o "Personalize suggestions using this user profile when relevant.\n\n"
    \o "User Profile:\n"
    \o "- Age: " \o PyStr(age) \o "\n"
    \o "- Gender: " \o PyStr(gender) \o "\n"
    \o "- Height: " \o PyStr(height) \o " cm\n"
    \o "- Weight: " \o PyStr(weight) \o " kg\n"
    \o "- Goal: " \o (IF Truthy(goal) THEN PyStr(goal) ELSE "none") \o "\n"
    \o "- Diet Preference: " \o PyStr(diet) \o "\n"
    \o "- Activity Level: " \o PyStr(activity) \o "\n"
    \o "- Allergies: " \o (IF Truthy(allergies) THEN PyStr(allergies) ELSE "none") \o "\n"

\* the f-string of lines 49-61
ProfileBlock(age, gender, height, weight, goal, diet, activity, allergies) ==
    "You are a friendly, factual fitness & diet assistant. "
    \o "Personalize suggestions using this user profile when relevant.\n\n"
    \o "User Profile:\n"
    \o "- Age: " \o PyStr(age) \o "\n"
    \o "- Gender: " \o PyStr(gender) \o "\n"
    \o "- Height: " \o PyStr(height) \o " cm\n"
    \o "- Weight: " \o PyStr(weight) \o " kg\n"
    \o "- Goal: " \o PyStr(goal) \o "\n"
    \o "- Diet Preference: " \o PyStr(diet) \o "\n"
    \o "- Activity Level: " \o PyStr(activity) \o "\n"
    \o "- Allergies: " \o (IF Truthy(allergies) THEN PyStr(allergies) ELSE "none") \o "\n"

build_system_preamble(profile) ==
    IF ~ProfileTruthy(profile) THEN Returned(GenericPreamble)
    ELSE IF profile.t # "obj" THEN Raised("AttributeError")
    ELSE Returned(ProfileBlock(
            Get(profile.f["age"], Str("")),
            Get(profile.f["gender"], Str("")),
            Get(profile.f["height"], Str("")),
            Get(profile.f["weight"], Str("")),
            Get(profile.f["goal"], Str("")),
            Get(profile.f["diet"], Str("")),
            Get(profile.f["activity"], Str("")),
            Get(profile.f["allergies"], Str(""))))

(***************************************************************************)
(* build_prompt                                                            *)
(***************************************************************************)
\* history[-12:] keeps this many turns
HistoryWindow == 12

\* the history value []: a list with no turn
EmptyList == [t |-> "list", turns |-> <<>>]

\* a history entry that is a dict
Turn(role, content) == [t |-> "obj", role |-> role, content |-> content]

\* a history entry that is not a dict (a string, a number, null)
NonDictTurn(tag) == [t |-> tag, role |-> Absent, content |-> Absent]

VariationLine ==
    "\nInstruction: Provide a different variation from the last plan or suggestion. "
    \o "Keep it consistent with the user's profile & preferences."

StyleLine ==
    "\nAssistant: Respond concisely. Use bullet points for plans/steps. "
    \o "If giving a day plan, include approximate calories/macros when helpful."

ConversationHeader == "\nConversation so far:"

\* a window that keeps the first turns instead of the last
WindowOldest(turns) == SliceTo(turns, HistoryWindow)

\* history[-12:] on a sequence
Window(turns) == SliceFrom(turns, -HistoryWindow)

\* the loop body, lines 71-73, for one turn
TurnLine(turn) ==
    IF turn.t # "obj" THEN Raised("AttributeError")
    ELSE LET role == Get(turn.role, Str("user"))
             content == Get(turn.content, Str(""))
         IN  IF role.t # "str" THEN Raised("AttributeError")
             ELSE Returned(capitalize(role.s) \o ": " \o PyStr(content))

\* the instruction lines appended whatever the hint is
TailLinesAlways(intent_hint) == <<VariationLine, StyleLine>>

\* lines 77-87: the optional variation line, then the style line
TailLines(intent_hint) ==
    (IF intent_hint = Str("variation") THEN <<VariationLine>> ELSE <<>>)
    \o <<StyleLine>>

\* the list `lines` as build_prompt leaves it, or the exception it raises
PromptLines(history, user_message, system_preamble, intent_hint) ==
    IF history.t \notin {"list", "str"} THEN Raised("TypeError")
    ELSE LET window == Window(history.turns)
             rendered == [i \in 1..Len(window) |-> TurnLine(window[i])]
         IN  IF \E i \in 1..Len(window) : rendered[i].raised
             THEN Raised("AttributeError")
             ELSE Returned(<<system_preamble, ConversationHeader>>
                           \o [i \in 1..Len(window) |-> rendered[i].val]
                           \o <<"User: " \o user_message>>
                           \o TailLines(intent_hint))

build_prompt(history, user_message, system_preamble, intent_hint) ==
    LET r == PromptLines(history, user_message, system_preamble, intent_hint)
    IN  IF r.raised THEN r ELSE Returned(join("\n", r.val))

(***************************************************************************)
(* api_chat: the request payloads and the model's results                  *)
(***************************************************************************)
\* the threads of the server that handle requests
Workers == {"w1", "w2"}

\* requests the server accepts in one run
MaxRequests == 3

\* the longest history of the prompt-builder runs
MaxHistory == 15

MODEL_NAME == "gemini-2.0-flash"

\* U+2019, the typographic apostrophe of line 125
RightQuote == "\\u2019"

GuardReply == "Please type a message."

FallbackReply == "Sorry, I couldn" \o RightQuote \o "t generate a response."

FailureReply == "Something went wrong calling the model."

\* a JSON body that is an object
Body(message, history, profile, intentHint) ==
    [body |-> "obj", message |-> message, history |-> history,
     profile |-> profile, intentHint |-> intentHint]

\* a JSON body that is no object: "falsy" (null, 0, "", [], false), which
\* `or {}` replaces by {}; "nonobj" (a non-empty list or string, a number);
\* "invalid" (not JSON at all)
OtherBody(kind) ==
    [body |-> kind, message |-> Absent, history |-> Absent,
     profile |-> Absent, intentHint |-> Absent]

\* history values: a key that is missing or null, a list, a string, a number
NoHistory(tag) == [t |-> tag, turns |-> <<>>]

ListOf(turns) == [t |-> "list", turns |-> turns]

\* a profile dict holding the given keys
Dict(fields) ==
    [t |-> "obj", s |-> "",
     f |-> [k \in AllKeys |-> IF k \in DOMAIN fields THEN fields[k] ELSE Absent]]

MessageInputs ==
    {Absent, Null, Num("5"), Str(""), Str(" \n\t"), Str("  hi \n"), Str("hi")}

HistoryInputs ==
    {NoHistory("absent"), NoHistory("null"), NoHistory("num"), NoHistory("str"),
     ListOf(<<>>),
     ListOf(<<Turn(Str("user"), Str("hello")), Turn(Str("assistant"), Str("welcome"))>>),
     ListOf(<<Turn(Absent, Absent)>>),
     ListOf(<<Turn(Null, Str("hello"))>>),
     ListOf(<<NonDictTurn("str")>>)}

ProfileInputs ==
    {NonDict(Absent), NonDict(Null), NonDict(Str("")), NonDict(Str("vegan")),
     EmptyDict, Dict([age |-> Num("30"), goal |-> Str("lose weight")])}

HintInputs == {Absent, Null, Num("1"), Str(""), Str("variation"), Str("other")}

\* the payloads of the handler runs: a well-formed request changed in one
\* field at a time, bodies that are no objects, and blank messages sent
\* with a malformed history or profile
Payloads ==
    {Body(m, NoHistory("absent"), NonDict(Absent), Absent) : m \in MessageInputs}
    \cup {Body(Str("hi"), h, NonDict(Absent), Absent) : h \in HistoryInputs}
    \cup {Body(Str("hi"), NoHistory("absent"), p, Absent) : p \in ProfileInputs}
    \cup {Body(Str("hi"), NoHistory("absent"), NonDict(Absent), i) : i \in HintInputs}
    \cup {OtherBody(k) : k \in {"falsy", "nonobj", "invalid"}}
    \cup {Body(Str(" "), NoHistory("null"), NonDict(Str("vegan")), Null),
          Body(Absent, ListOf(<<NonDictTurn("num")>>), NonDict(Absent), Str("variation"))}

\* what model.generate_content(prompt) and the reading of resp.text do:
\* "raise": generate_content raises the Exception e with str(e) = text;
\* "text_raises": it returns a response whose .text raises;
\* "falsy_resp": it returns a response that is falsy;
\* "text": it returns a response with .text = text (Null for None)
Outcome(kind, text) == [kind |-> kind, text |-> text]

NoOutcome == Outcome("none", Absent)

Outcomes ==
    {Outcome("raise", Str("429 quota exceeded")), Outcome("raise", Str("")),
     Outcome("text_raises", Str("response has no valid part")),
     Outcome("falsy_resp", Absent),
     Outcome("text", Null), Outcome("text", Str("")), Outcome("text", Str(" \n")),
     Outcome("text", Str(" Eat oats.\n"))}

\* a response: the HTTP status and the members of its JSON object (Absent
\* for a member the object does not have; an HTML error page has neither)
Response(status, reply, error) == [status |-> status, reply |-> reply, error |-> error]

\* Flask's answer to an exception the view does not catch
InternalServerError == Response(500, Absent, Absent)

\* Flask's answer to the BadRequest that get_json raises
BadRequest == Response(400, Absent, Absent)

(***************************************************************************)
(* State                                                                   *)
(***************************************************************************)
VARIABLES
    config,           \* the process-wide model configuration (lines 15-24)
    console,          \* number of "Model error" lines printed (line 128)
    served,           \* number of requests accepted so far
    pc,               \* per worker: where its request is in api_chat
    request,          \* per worker: the payload of its request
    message,          \* per worker: the local `message`
    history,          \* per worker: the local `history`
    profile,          \* per worker: the local `profile`
    intent_hint,      \* per worker: the local `intent_hint`
    system_preamble,  \* per worker: the local `system_preamble`
    prompt,           \* per worker: the local `prompt`
    calls,            \* per worker: calls of model.generate_content made
    outcome,          \* per worker: what the model call did
    responses,        \* per worker: the responses sent for its request
    steps,            \* per worker: the steps its request went through
    arg,              \* input of a run of one helper function
    lines,            \* the local `lines` of build_prompt in such a run
    ret               \* what the helper returned in such a run

handlerVars ==
    <<config, console, served, pc, request, message, history, profile,
      intent_hint, system_preamble, prompt, calls, outcome, responses, steps>>

helperVars == <<arg, lines, ret>>

vars == <<handlerVars, helperVars>>

NoArg == [fn |-> "none"]

NotRun == Raised("not run")

\* the module's globals after lines 15-27, no request in flight
HandlerInit ==
    /\ config = [model_name |-> MODEL_NAME]
    /\ console = 0
    /\ served = 0
    /\ pc = [w \in Workers |-> "idle"]
    /\ request = [w \in Workers |-> OtherBody("falsy")]
    /\ message = [w \in Workers |-> ""]
    /\ history = [w \in Workers |-> EmptyList]
    /\ profile = [w \in Workers |-> EmptyDict]
    /\ intent_hint = [w \in Workers |-> Absent]
    /\ system_preamble = [w \in Workers |-> ""]
    /\ prompt = [w \in Workers |-> ""]
    /\ calls = [w \in Workers |-> 0]
    /\ outcome = [w \in Workers |-> NoOutcome]
    /\ responses = [w \in Workers |-> <<>>]
    /\ steps = [w \in Workers |-> <<>>]

Init ==
    /\ HandlerInit
    /\ arg = NoArg
    /\ lines = <<>>
    /\ ret = NotRun

(***************************************************************************)
(* api_chat, one action per step of the view                               *)
(***************************************************************************)
\* the worker's locals other than those named are left as they are
Locals == <<message, history, profile, intent_hint, system_preamble, prompt>>

\* the view returns (or an exception leaves it) with response r
Respond(w, r, step) ==
    /\ responses' = [responses EXCEPT ![w] = Append(@, r)]
    /\ steps' = [steps EXCEPT ![w] = Append(@, step)]
    /\ pc' = [pc EXCEPT ![w] = "done"]

\* a request arrives and Flask calls api_chat in worker w with fresh locals
Receive(w, p) ==
    /\ pc[w] \in {"idle", "done"}
    /\ served < MaxRequests
    /\ served' = served + 1
    /\ request' = [request EXCEPT ![w] = p]
    /\ pc' = [pc EXCEPT ![w] = "validate"]
    /\ message' = [message EXCEPT ![w] = ""]
    /\ history' = [history EXCEPT ![w] = EmptyList]
    /\ profile' = [profile EXCEPT ![w] = EmptyDict]
    /\ intent_hint' = [intent_hint EXCEPT ![w] = Absent]
    /\ system_preamble' = [system_preamble EXCEPT ![w] = ""]
    /\ prompt' = [prompt EXCEPT ![w] = ""]
    /\ calls' = [calls EXCEPT ![w] = 0]
    /\ outcome' = [outcome EXCEPT ![w] = NoOutcome]
    /\ responses' = [responses EXCEPT ![w] = <<>>]
    /\ steps' = [steps EXCEPT ![w] = <<>>]
    /\ UNCHANGED <<config, console, helperVars>>

\* `data` of line 109 for a body that get_json could parse
Data(p) == IF p.body = "falsy" THEN OtherBody("obj") ELSE p

\* lines 109-116 with `history` kept in a list that the requests share
ValidateKeepHistory(w) ==
    /\ pc[w] = "validate"
    /\ UNCHANGED <<config, console, served, request, calls, outcome, helperVars>>
    /\ LET p == request[w]
           data == Data(p)
           msg == Get(data.message, Str(""))
           h == Get(data.history, EmptyList)
       IN  IF p.body = "invalid"
           THEN Respond(w, BadRequest, "validate") /\ UNCHANGED Locals
           ELSE IF p.body = "nonobj" \/ msg.t # "str"
           THEN Respond(w, InternalServerError, "validate") /\ UNCHANGED Locals
           ELSE /\ message' = [message EXCEPT ![w] = strip(msg.s)]
                /\ history' = [history EXCEPT ![w] =
                                 IF h.t = "list"
                                 THEN ListOf(history[CHOOSE v \in Workers : v # w].turns \o h.turns)
                                 ELSE h]
                /\ profile' = [profile EXCEPT ![w] = Get(data.profile, EmptyDict)]
                /\ intent_hint' = [intent_hint EXCEPT ![w] = Get(data.intentHint, Str(""))]
                /\ UNCHANGED <<system_preamble, prompt>>
                /\ IF strip(msg.s) = ""
                   THEN Respond(w, Response(200, Str(GuardReply), Null), "validate")
                   ELSE /\ pc' = [pc EXCEPT ![w] = "format"]
                        /\ steps' = [steps EXCEPT ![w] = Append(@, "validate")]
                        /\ UNCHANGED responses

\* lines 109-116: parse the body, default the fields, trim the message, and
\* answer a blank message at once
Validate(w) ==
    /\ pc[w] = "validate"
    /\ UNCHANGED <<config, console, served, request, calls, outcome, helperVars>>
    /\ LET p == request[w]
           data == Data(p)
           msg == Get(data.message, Str(""))
       IN  IF p.body = "invalid"
           THEN Respond(w, BadRequest, "validate") /\ UNCHANGED Locals
           ELSE IF p.body = "nonobj" \/ msg.t # "str"
           THEN Respond(w, InternalServerError, "validate") /\ UNCHANGED Locals
           ELSE /\ message' = [message EXCEPT ![w] = strip(msg.s)]
                /\ history' = [history EXCEPT ![w] = Get(data.history, EmptyList)]
                /\ profile' = [profile EXCEPT ![w] = Get(data.profile, EmptyDict)]
                /\ intent_hint' = [intent_hint EXCEPT ![w] = Get(data.intentHint, Str(""))]
                /\ UNCHANGED <<system_preamble, prompt>>
                /\ IF strip(msg.s) = ""
                   THEN Respond(w, Response(200, Str(GuardReply), Null), "validate")
                   ELSE /\ pc' = [pc EXCEPT ![w] = "format"]
                        /\ steps' = [steps EXCEPT ![w] = Append(@, "validate")]
                        /\ UNCHANGED responses

\* line 118
Format(w) ==
    /\ pc[w] = "format"
    /\ UNCHANGED <<config, console, served, request, calls, outcome, helperVars>>
    /\ UNCHANGED <<message, history, profile, intent_hint, prompt>>
    /\ LET r == build_system_preamble(profile[w])
       IN  IF r.raised
           THEN Respond(w, InternalServerError, "format") /\ UNCHANGED system_preamble
           ELSE /\ system_preamble' = [system_preamble EXCEPT ![w] = r.val]
                /\ pc' = [pc EXCEPT ![w] = "build"]
                /\ steps' = [steps EXCEPT ![w] = Append(@, "format")]
                /\ UNCHANGED responses

\* line 119
Build(w) ==
    /\ pc[w] = "build"
    /\ UNCHANGED <<config, console, served, request, calls, outcome, helperVars>>
    /\ UNCHANGED <<message, history, profile, intent_hint, system_preamble>>
    /\ LET r == build_prompt(history[w], message[w], system_preamble[w], intent_hint[w])
       IN  IF r.raised
           THEN Respond(w, InternalServerError, "build") /\ UNCHANGED prompt
           ELSE /\ prompt' = [prompt EXCEPT ![w] = r.val]
                /\ pc' = [pc EXCEPT ![w] = "call"]
                /\ steps' = [steps EXCEPT ![w] = Append(@, "build")]
                /\ UNCHANGED responses

\* line 122: the view enters model.generate_content(prompt) and blocks
CallModel(w) ==
    /\ pc[w] = "call"
    /\ calls' = [calls EXCEPT ![w] = @ + 1]
    /\ pc' = [pc EXCEPT ![w] = "calling"]
    /\ steps' = [steps EXCEPT ![w] = Append(@, "call")]
    /\ UNCHANGED <<config, console, served, request, outcome, responses, helperVars>>
    /\ UNCHANGED Locals

\* lines 123-126: the reply made of what the model returned
SuccessResponse(o) ==
    LET raw == IF o.kind = "falsy_resp" \/ ~Truthy(o.text) THEN "" ELSE o.text.s
        text == strip(raw)
    IN  Response(200, Str(IF text = "" THEN FallbackReply ELSE text), Absent)

\* line 129: the answer to an exception of the model call
FailureResponse(o) == Response(500, Str(FailureReply), Str(o.text.s))

\* the model call ends with a failure and the view calls the model again
ModelReturnRetry(w, o) ==
    /\ pc[w] = "calling"
    /\ outcome' = [outcome EXCEPT ![w] = o]
    /\ UNCHANGED <<config, served, request, calls, helperVars>>
    /\ UNCHANGED Locals
    /\ IF o.kind \in {"raise", "text_raises"}
       THEN /\ console' = console + 1
            /\ pc' = [pc EXCEPT ![w] = "call"]
            /\ steps' = [steps EXCEPT ![w] = Append(@, "respond")]
            /\ UNCHANGED responses
       ELSE /\ Respond(w, SuccessResponse(o), "respond")
            /\ UNCHANGED console

\* lines 122-129: the model call ends with outcome o and the view answers
ModelReturn(w, o) ==
    /\ pc[w] = "calling"
    /\ outcome' = [outcome EXCEPT ![w] = o]
    /\ UNCHANGED <<config, served, request, calls, helperVars>>
    /\ UNCHANGED Locals
    /\ IF o.kind \in {"raise", "text_raises"}
       THEN /\ console' = console + 1
            /\ Respond(w, FailureResponse(o), "respond")
       ELSE /\ Respond(w, SuccessResponse(o), "respond")
            /\ UNCHANGED console

Next ==
    \/ \E w \in Workers, p \in Payloads : Receive(w, p)
    \/ \E w \in Workers : Validate(w)
    \/ \E w \in Workers : Format(w)
    \/ \E w \in Workers : Build(w)
    \/ \E w \in Workers : CallModel(w)
    \/ \E w \in Workers, o \in Outcomes : ModelReturn(w, o)

Spec == Init /\ [][Next]_vars

(***************************************************************************)
(* Runs of build_system_preamble alone                                     *)
(***************************************************************************)
\* the value a populated field holds in these runs
Populated(k) ==
    CASE k = "age" -> Num("30")
      [] k = "gender" -> Str("female")
      [] k = "height" -> Num("170")
      [] k = "weight" -> Str("65.5")
      [] k = "goal" -> Str("lose weight")
      [] k = "diet" -> Str("vegan")
      [] k = "activity" -> Str("moderate")
      [] k = "allergies" -> Str("peanuts")
      [] OTHER -> Str("x")

\* what a key holds: nothing (the key is missing), the empty string, a value
FieldChoice(k, c) == IF c = 0 THEN Absent ELSE IF c = 1 THEN Str("") ELSE Populated(k)

\* every dict whose recognised keys are each missing, empty or populated,
\* with or without a key the formatter does not read
ProfileDicts ==
    {[t |-> "obj", s |-> "", f |-> [k \in AllKeys |-> FieldChoice(k, c[k])]] :
        c \in {d \in [AllKeys -> 0..2] : d[OtherKey] # 1}}

PreambleArgs ==
    {[fn |-> "build_system_preamble", profile |-> p] : p \in ProfileDicts \cup ProfileInputs}

InitPreamble ==
    /\ HandlerInit
    /\ arg \in PreambleArgs
    /\ lines = <<>>
    /\ ret = NotRun

RunPreamble ==
    /\ arg.fn = "build_system_preamble"
    /\ ret = NotRun
    /\ ret' = build_system_preamble(arg.profile)
    /\ UNCHANGED <<arg, lines, handlerVars>>

NextPreamble == RunPreamble

SpecPreamble == InitPreamble /\ [][NextPreamble]_vars

(***************************************************************************)
(* Runs of build_prompt alone                                              *)
(***************************************************************************)
Digits == "0123456789"

RECURSIVE Dec(_)
\* str(i) for i >= 0
Dec(i) ==
    IF i < 10 THEN CharAt(Digits, i + 1)
    ELSE Dec(i \div 10) \o CharAt(Digits, (i % 10) + 1)

\* a conversation of n turns, the user speaking first, turn i saying "turn i"
Conversation(n) ==
    ListOf([i \in 1..n |->
              Turn(Str(IF i % 2 = 1 THEN "user" ELSE "assistant"), Str("turn " \o Dec(i)))])

\* the same conversation with an entry that is no dict put in front
BadFirst(h) == ListOf(<<NonDictTurn("str")>> \o h.turns)

RoleInputs ==
    {Absent, Null, Num("7"), Str(""), Str("user"), Str("assistant"), Str("USER"),
     Str("fitnessCoach"), Str("2nd coach")}

ContentInputs == {Absent, Null, Num("3"), Str("hello")}

HistoryArgs ==
    {Conversation(n) : n \in 0..MaxHistory}
    \cup {BadFirst(Conversation(n)) : n \in 0..(MaxHistory - 1)}
    \cup {ListOf(<<Turn(r, c)>>) : r \in RoleInputs, c \in ContentInputs}
    \cup HistoryInputs
    \cup {[t |-> "str", turns |-> <<NonDictTurn("str")>>]}

PromptArgs ==
    {[fn |-> "build_prompt", history |-> h, user_message |-> m,
      system_preamble |-> sp, intent_hint |-> i] :
        h \in HistoryArgs \ {NoHistory("absent")},
        m \in {"hi", "What should I eat today?"},
        sp \in {GenericPreamble, build_system_preamble(Dict([age |-> Num("30")])).val},
        i \in (HintInputs \ {Absent}) \cup {Str("Variation")}}

InitPrompt ==
    /\ HandlerInit
    /\ arg \in PromptArgs
    /\ lines = <<>>
    /\ ret = NotRun

RunPrompt ==
    /\ arg.fn = "build_prompt"
    /\ ret = NotRun
    /\ LET l == PromptLines(arg.history, arg.user_message, arg.system_preamble,
                            arg.intent_hint)
       IN  lines' = IF l.raised THEN <<>> ELSE l.val
    /\ ret' = build_prompt(arg.history, arg.user_message, arg.system_preamble,
                           arg.intent_hint)
    /\ UNCHANGED <<arg, handlerVars>>

NextPrompt == RunPrompt

SpecPrompt == InitPrompt /\ [][NextPrompt]_vars

(***************************************************************************)
(* Properties of build_system_preamble (checked under SpecPreamble)        *)
(***************************************************************************)
\* the places of the newlines of text
Newlines(text) == {i \in 1..Len(text) : CharAt(text, i) = "\n"}

RECURSIVE SplitLines(_)
\* text.split("\n")
SplitLines(text) ==
    IF Newlines(text) = {} THEN <<text>>
    ELSE LET i == CHOOSE n \in Newlines(text) : \A m \in Newlines(text) : n <= m
         IN  <<SubSeq(text, 1, i - 1)>> \o SplitLines(SubSeq(text, i + 1, Len(text)))

StartsWith(text, prefix) ==
    Len(text) >= Len(prefix) /\ SubSeq(text, 1, Len(prefix)) = prefix

EndsWith(text, suffix) ==
    Len(text) >= Len(suffix)
    /\ SubSeq(text, Len(text) - Len(suffix) + 1, Len(text)) = suffix

IsProfileLine(l) == StartsWith(l, "- ")

\* the lines of a preamble that carry a profile field
ProfileLines(text) == SelectSeq(SplitLines(text), IsProfileLine)

\* a field is unpopulated when its key is missing or holds the empty string
Unpopulated(v) == v \in {Absent, Str("")}

ShownValue(v) == IF Unpopulated(v) THEN "" ELSE v.s

\* the eight labelled lines the spec gives for the dict with fields f
EightLines(f) ==
    <<"- Age: " \o ShownValue(f["age"]),
      "- Gender: " \o ShownValue(f["gender"]),
      "- Height: " \o ShownValue(f["height"]) \o " cm",
      "- Weight: " \o ShownValue(f["weight"]) \o " kg",
      "- Goal: " \o ShownValue(f["goal"]),
      "- Diet Preference: " \o ShownValue(f["diet"]),
      "- Activity Level: " \o ShownValue(f["activity"]),
      "- Allergies: " \o (IF Unpopulated(f["allergies"]) THEN "none"
                          ELSE f["allergies"].s)>>

\* a profile that is missing, null, "" or a dict without any key
EmptyProfile(p) ==
    \/ p.t \in {"absent", "null"}
    \/ p.t = "str" /\ p.s = ""
    \/ p.t = "obj" /\ \A k \in AllKeys : p.f[k] = Absent

\* C6: for a profile dict holding any subset of the eight fields, the
\* preamble has exactly the eight labelled lines, in the order Age, Gender,
\* Height, Weight, Goal, Diet Preference, Activity Level, Allergies, an
\* unpopulated field showing nothing after its label and Allergies showing
\* "none"; the generic preamble, which has no profile line, is returned for
\* an empty or absent profile and for no other.
C6_EightLabelledLines ==
    ret # NotRun =>
        LET p == arg.profile
        IN  /\ p.t = "obj" => ~ret.raised
            /\ (p.t = "obj" /\ ~EmptyProfile(p)) =>
                   ProfileLines(ret.val) = EightLines(p.f)
            /\ (ret = Returned(GenericPreamble)) <=> EmptyProfile(p)
            /\ EmptyProfile(p) => ProfileLines(ret.val) = <<>>

\* a dict with some fields populated, one empty and allergies missing has
\* been formatted
C6_Witness ==
    /\ ret # NotRun
    /\ ~ret.raised
    /\ arg.profile.t = "obj"
    /\ arg.profile.f["age"] = Num("30")
    /\ arg.profile.f["gender"] = Absent
    /\ arg.profile.f["goal"] = Str("")
    /\ arg.profile.f["weight"] = Str("65.5")
    /\ arg.profile.f["allergies"] = Absent

(***************************************************************************)
(* Properties of build_prompt (checked under SpecPrompt)                   *)
(***************************************************************************)
\* build_prompt was run on a list of turns and returned
PromptBuilt == ret # NotRun /\ ~ret.raised /\ arg.history.t = "list"

\* the turns of the input that the spec says are shown: the last 12
ShownTurns ==
    LET turns == arg.history.turns
        n == Len(turns)
        k == IF n < 12 THEN n ELSE 12
    IN  [j \in 1..k |-> turns[n - k + j]]

\* C4: for a history of N turns the prompt has exactly min(N, 12)
\* conversation lines between the "Conversation so far:" line and the
\* "User: <message>" line, and they are the last min(N, 12) turns in their
\* original order.
C4_LastTwelveTurns ==
    PromptBuilt =>
        LET k == Len(ShownTurns)
        IN  /\ k = (IF Len(arg.history.turns) < 12 THEN Len(arg.history.turns) ELSE 12)
            /\ Len(lines) >= k + 3
            /\ lines[1] = arg.system_preamble
            /\ lines[2] = "\nConversation so far:"
            /\ lines[k + 3] = "User: " \o arg.user_message
            /\ \A j \in 1..k : lines[2 + j] = TurnLine(ShownTurns[j]).val
            /\ ret.val = join("\n", lines)

\* a history of 15 turns has been built into a prompt that starts the
\* conversation at turn 4 and ends it at turn 15
C4_Witness ==
    /\ PromptBuilt
    /\ arg.history = Conversation(15)
    /\ lines[3] = "Assistant: turn 4"
    /\ lines[14] = "User: turn 15"
    /\ lines[15] = "User: " \o arg.user_message

\* C5: the prompt always ends with the style line; with the hint
\* "variation" the variation line comes right before it and after the
\* "User: <message>" line; with any other hint there is no variation line.
C5_StyleAndVariationLines ==
    PromptBuilt =>
        LET n == Len(lines)
        IN  /\ n >= 4
            /\ lines[n] = StyleLine
            /\ EndsWith(ret.val, "\n" \o StyleLine)
            /\ arg.intent_hint = Str("variation") =>
                   /\ lines[n - 1] = VariationLine
                   /\ lines[n - 2] = "User: " \o arg.user_message
                   /\ EndsWith(ret.val, "\n" \o VariationLine \o "\n" \o StyleLine)
            /\ arg.intent_hint # Str("variation") =>
                   /\ \A i \in 1..n : lines[i] # VariationLine
                   /\ lines[n - 1] = "User: " \o arg.user_message

\* a prompt has been built with the hint "variation"
C5_Witness ==
    /\ PromptBuilt
    /\ arg.intent_hint = Str("variation")
    /\ Len(arg.history.turns) = 2
    /\ lines[Len(lines) - 1] = VariationLine

\* the role and the content the spec says a turn is shown with
RoleOf(turn) == IF turn.role.t = "absent" THEN "user" ELSE turn.role.s

ContentOf(turn) == IF turn.content.t = "absent" THEN "" ELSE PyStr(turn.content)

\* x is r with its first character in upper case and the others unchanged
FirstUpperRestSame(x, r) ==
    /\ Len(x) = Len(r)
    /\ r # "" => CharAt(x, 1) = UpperCh(CharAt(r, 1))
    /\ \A i \in 2..Len(r) : CharAt(x, i) = CharAt(r, i)

\* x is r with its first character in upper case and the others in lower case
FirstUpperRestLower(x, r) ==
    /\ Len(x) = Len(r)
    /\ r # "" => CharAt(x, 1) = UpperCh(CharAt(r, 1))
    /\ \A i \in 2..Len(r) : CharAt(x, i) = LowerCh(CharAt(r, i))

\* C8 as the spec states it: every turn of the prompt is the line
\* "<Role>: <content>", the role being "user" for a turn without one and
\* else the given role with only its first letter capitalised, every other
\* character unchanged.
C8_RoleTailUnchanged ==
    PromptBuilt =>
        \A j \in 1..Len(ShownTurns) :
            LET r == RoleOf(ShownTurns[j])
                line == lines[2 + j]
            IN  /\ Len(line) >= Len(r)
                /\ FirstUpperRestSame(SubSeq(line, 1, Len(r)), r)
                /\ SubSeq(line, Len(r) + 1, Len(line)) = ": " \o ContentOf(ShownTurns[j])

\* C8 amended: every turn of the prompt is the line "<Role>: <content>", the
\* role being "user" for a turn without one, shown with its first character
\* in upper case and all its other characters in lower case.
C8_RoleFirstUpperRestLower ==
    PromptBuilt =>
        \A j \in 1..Len(ShownTurns) :
            LET r == RoleOf(ShownTurns[j])
                line == lines[2 + j]
            IN  /\ Len(line) >= Len(r)
                /\ FirstUpperRestLower(SubSeq(line, 1, Len(r)), r)
                /\ SubSeq(line, Len(r) + 1, Len(line)) = ": " \o ContentOf(ShownTurns[j])

\* a turn whose role has an upper-case letter after the first has been built
\* into a prompt
C8_Witness ==
    /\ PromptBuilt
    /\ arg.history = ListOf(<<Turn(Str("fitnessCoach"), Str("hello"))>>)
    /\ lines[3] = "Fitnesscoach: hello"

(***************************************************************************)
(* Properties of api_chat (checked under Spec)                             *)
(***************************************************************************)
AllWhitespace(text) == \A i \in 1..Len(text) : CharAt(text, i) \in Whitespace

\* x is raw without the whitespace at its two ends
IsTrimOf(x, raw) ==
    /\ x # "" => CharAt(x, 1) \notin Whitespace /\ CharAt(x, Len(x)) \notin Whitespace
    /\ \E a \in 0..Len(raw) :
          /\ a + Len(x) <= Len(raw)
          /\ SubSeq(raw, a + 1, a + Len(x)) = x
          /\ AllWhitespace(SubSeq(raw, 1, a))
          /\ AllWhitespace(SubSeq(raw, a + Len(x) + 1, Len(raw)))

\* the body is a JSON object, or a value `or {}` turns into one
ObjectBody(p) == p.body \in {"obj", "falsy"}

\* the request has no message, or one that is blank once trimmed
BlankMessage(p) ==
    /\ ObjectBody(p)
    /\ \/ Data(p).message.t = "absent"
       \/ Data(p).message.t = "str" /\ AllWhitespace(Data(p).message.s)

\* the request of worker w has been answered
Done(w) == pc[w] = "done"

ModelFailed(w) == Done(w) /\ outcome[w].kind \in {"raise", "text_raises"}

ModelSucceeded(w) == Done(w) /\ outcome[w].kind \in {"falsy_resp", "text"}

\* the text of the model's response, "" when it has none
ModelText(o) == IF o.kind = "text" /\ o.text.t = "str" THEN o.text.s ELSE ""

\* C1 as the spec states it: whenever the model call raises, the handler
\* answers with status 500, the reply "Something went wrong calling the
\* model." and an error member that is a non-empty string.
C1_FailureHasNonEmptyError ==
    \A w \in Workers :
        ModelFailed(w) =>
            /\ Len(responses[w]) = 1
            /\ responses[w][1].status = 500
            /\ responses[w][1].reply = Str("Something went wrong calling the model.")
            /\ responses[w][1].error.t = "str"
            /\ responses[w][1].error.s # ""

SuccessAnswer(w, fallback) ==
    /\ Len(responses[w]) = 1
    /\ responses[w][1].status = 200
    /\ responses[w][1].error = Absent
    /\ responses[w][1].reply.t = "str"
    /\ IF AllWhitespace(ModelText(outcome[w]))
       THEN responses[w][1].reply.s = fallback
       ELSE IsTrimOf(responses[w][1].reply.s, ModelText(outcome[w]))

\* C3 as the spec states it: when the model call succeeds the answer has
\* status 200, no error member and the trimmed model text as reply, or,
\* when that text is empty or whitespace, the fallback written with the
\* ASCII apostrophe.
C3_FallbackWithAsciiApostrophe ==
    \A w \in Workers :
        ModelSucceeded(w) => SuccessAnswer(w, "Sorry, I couldn't generate a response.")

\* C3 amended: the same, the fallback being "Sorry, I couldn(U+2019)t
\* generate a response.", written with the typographic apostrophe U+2019.
C3_FallbackWithTypographicApostrophe ==
    \A w \in Workers :
        ModelSucceeded(w) =>
            SuccessAnswer(w, "Sorry, I couldn" \o "\\u2019" \o "t generate a response.")

\* a model text with whitespace at both ends has been answered, and so has
\* a whitespace-only one
C3_Witness ==
    \E w, v \in Workers :
        /\ ModelSucceeded(w)
        /\ outcome[w] = Outcome("text", Str(" Eat oats.\n"))
        /\ responses[w][1].reply = Str("Eat oats.")
        /\ ModelSucceeded(v)
        /\ outcome[v] = Outcome("text", Str(" \n"))

\* C7 as the spec states it: whatever the payload, the handler answers with
\* a ChatResponse that has a reply, with status 200 or 500.
C7_EveryPayloadGetsAReply ==
    \A w \in Workers :
        Done(w) =>
            /\ Len(responses[w]) = 1
            /\ responses[w][1].reply.t = "str"
            /\ responses[w][1].status \in {200, 500}

\* the steps of api_chat in their order
StepOrder == <<"validate", "format", "build", "call", "respond">>

IsPrefix(x, y) == Len(x) <= Len(y) /\ x = SubSeq(y, 1, Len(x))

\* C9: the steps of one request are taken in the order validate, format,
\* build, model call, respond, none of them twice; the model is called at
\* most once, never for a blank message, and not again after a failure;
\* exactly one response is sent, and only at the end.
C9_LinearSingleCall ==
    \A w \in Workers :
        /\ IsPrefix(steps[w], StepOrder)
        /\ calls[w] <= 1
        /\ calls[w] = Cardinality({i \in 1..Len(steps[w]) : steps[w][i] = "call"})
        /\ BlankMessage(request[w]) => calls[w] = 0
        /\ ModelFailed(w) => calls[w] = 1
        /\ Len(responses[w]) = (IF Done(w) THEN 1 ELSE 0)
        /\ outcome[w] # NoOutcome => Done(w) /\ steps[w] = StepOrder

\* a request whose model call failed has gone through all five steps
C9_Witness ==
    \E w \in Workers :
        /\ ModelFailed(w)
        /\ steps[w] = StepOrder
        /\ calls[w] = 1
        /\ Len(responses[w]) = 1

\* the prompt api_chat sends for payload p, from p alone
OwnPrompt(p) ==
    build_prompt(Get(Data(p).history, EmptyList),
                 strip(Data(p).message.s),
                 build_system_preamble(Get(Data(p).profile, EmptyDict)).val,
                 Get(Data(p).intentHint, Str(""))).val

\* the answer to payload p when the model's result for its prompt is o
OwnResponse(o) ==
    IF o.kind \in {"raise", "text_raises"} THEN FailureResponse(o) ELSE SuccessResponse(o)

\* C10: whatever the interleaving of the requests, the prompt a request
\* sends to the model is built from its own payload alone, its answer is
\* determined by its own payload and the model's result for that prompt,
\* and the model configuration stays as it was at startup.
C10_RequestsAreIndependent ==
    /\ config = [model_name |-> "gemini-2.0-flash"]
    /\ \A w \in Workers :
          /\ calls[w] = 1 => prompt[w] = OwnPrompt(request[w])
          /\ (Done(w) /\ calls[w] = 1) => responses[w] = <<OwnResponse(outcome[w])>>
          /\ (Done(w) /\ BlankMessage(request[w])) =>
                 responses[w] = <<Response(200, Str(GuardReply), Null)>>

\* two requests with different histories and profiles are in flight at the
\* same time, one of them on a worker that served a request before
C10_Witness ==
    \E w, v \in Workers :
        /\ w # v
        /\ served = 3
        /\ pc[w] = "calling"
        /\ Len(history[w].turns) = 2
        /\ Done(v)
        /\ calls[v] = 1
        /\ profile[v].f["age"] = Num("30")

====
